---- MODULE Spec2Model ----
(***************************************************************************)
(* A model of the animated-style core of react-native-reanimated           *)
(* (src/reanimated2/hook/utils.ts): the dependency comparison, the style   *)
(* differ, the recursive animation walker (prepareAnimation,               *)
(* runAnimations), the two style updaters (styleUpdater, jestStyleUpdater) *)
(* with their frame continuations, and the useAnimatedStyle life cycle.    *)
(*                                                                         *)
(* JavaScript objects that are shared by reference (the animation objects  *)
(* a producer returns) live in `heap` and are referred to by id; a style   *)
(* object is a function from a subset of Keys to values, so "key absent"   *)
(* and "key present with value undefined" are different.                   *)
(***************************************************************************)
EXTENDS Integers, Sequences, FiniteSets, TLC

VARIABLES
    heap,             \* animation objects by id (shared by reference)
    state,            \* the AnimatedState (remoteState) of the binding
    frameQueue,       \* callbacks handed to requestFrame and not yet run
    animationsActive, \* the animationsActive shared value
    jest,             \* isJest(): which updater the mapper runs
    binds,            \* number of mapper runs so far (bounded)
    clock,            \* the timestamp of the current display frame
    initRef,          \* initRef.current is set (the hook has been initialised)
    mapperId,         \* the running mapper: 0 = none, else 1 or 2 (re-registration alternates)
    dependencies,     \* the dependency list of the last effect run
    twin,             \* the same binding run side by side under jestStyleUpdater
    log               \* what the last handler did (commits, callbacks, ...)

vars == <<heap, state, frameQueue, animationsActive, jest, binds, clock, initRef, mapperId,
          dependencies, twin, log>>

----------------------------------------------------------------------------
(* Bounds *)

MaxBinds == 3
MaxHookBinds == 2

Keys == {"opacity", "width"}
KeySeq == <<"opacity", "width">>
Timestamps == {1, 2}
NextTimestamp(t) == IF t = 1 THEN 2 ELSE 1
CurrentMod == 3
StaticNums == {1}
DeclaredCurrents == {0}
StepCounts == {1, 2}
ObjIds == 1 .. (2 * Cardinality(Keys))

----------------------------------------------------------------------------
(* Values *)

Undef == [t |-> "undef", v |-> 0]
Null == [t |-> "null", v |-> 0]
Num(n) == [t |-> "num", v |-> n]
NaN == [t |-> "nan", v |-> 0]
NegZero == [t |-> "negzero", v |-> 0]
Anim(i) == [t |-> "anim", v |-> i]
\* composite nodes: an object whose members are nodes, an array of nodes; and
\* an object that exposes .value (a shared value)
MapNode(f) == [t |-> "map", v |-> f]
SeqNode(q) == [t |-> "seq", v |-> q]
Holder(x) == [t |-> "holder", v |-> x]

EmptyMap == [k \in {} |-> Undef]
Get(m, k) == IF k \in DOMAIN m THEN m[k] ELSE Undef
Put(m, k, v) == [x \in (DOMAIN m) \cup {k} |-> IF x = k THEN v ELSE m[x]]
Del(m, k) == [x \in (DOMAIN m) \ {k} |-> m[x]]
\* Object.assign({}, a, b)
Assign(a, b) == [x \in (DOMAIN a) \cup (DOMAIN b) |-> IF x \in DOMAIN b THEN b[x] ELSE a[x]]

NoObj == [current |-> Undef, remaining |-> 0, finished |-> FALSE,
          timestamp |-> 0, callbacks |-> 0, started |-> 0]

EmptyLog == [op |-> "init", commits |-> <<>>, starts |-> <<>>, frames |-> <<>>,
             callbacks |-> <<>>, requested |-> 0, ran |-> 0,
             shape |-> "map", newValues |-> EmptyMap, wasRunning |-> FALSE,
             threw |-> FALSE, registered |-> FALSE, equal |-> FALSE,
             callbackArgs |-> <<>>, returned |-> FALSE, result |-> EmptyMap,
             folded |-> EmptyMap, inputs |-> <<>>, handlers |-> <<>>]

----------------------------------------------------------------------------
(* The animation-definition layer: the callbacks of an animation object.   *)

\* onStart(animation, value, timestamp, previousAnimation); the timestamp
\* (getTimestamp()) only reaches the animation's own start time
onStart(w, id, value, previous) ==
    [w EXCEPT !.heap[id].current = value,
              !.heap[id].started = @ + 1,
              !.log.starts = Append(@, [id |-> id, seed |-> value, previous |-> previous,
                                        previousCurrent |->
                                            IF previous.t = "anim"
                                            THEN w.heap[previous.v].current ELSE Undef])]

\* onFrame(animation, timestamp): advances current, reports completion
onFrame(w, id, timestamp) ==
    LET a == w.heap[id]
        left == IF a.remaining > 0 THEN a.remaining - 1 ELSE 0
        cur == IF a.current.t = "num" THEN Num((a.current.v + 1) % CurrentMod) ELSE a.current
    IN [w |-> [w EXCEPT !.heap[id].current = cur,
                        !.heap[id].remaining = left,
                        !.log.frames = Append(@, id)],
        finished |-> (left = 0)]

\* animation.callback(finished)
callback(w, id, finished) ==
    [w EXCEPT !.heap[id].callbacks = @ + 1, !.log.callbacks = Append(@, id),
              !.log.callbackArgs = Append(@, finished)]

----------------------------------------------------------------------------
(* Style differ *)

\* a bug: only the first member of an item is looked at
ItemScanFirst(item, i) ==
    IF item.t = "holder"
    THEN (IF item.v.t \in {"null", "undef"} THEN "TypeError"
          ELSE IF item.v.t = "anim" THEN "found" ELSE "none")
    ELSE IF item.t # "map" \/ DOMAIN item.v = {}
    THEN "none"
    ELSE LET first == item.v[KeySeq[CHOOSE j \in 1 .. Len(KeySeq) :
                                 /\ KeySeq[j] \in DOMAIN item.v
                                 /\ \A n \in 1 .. (j - 1) : KeySeq[n] \notin DOMAIN item.v]]
         IN IF first.t \in {"null", "undef"} THEN "TypeError"
            ELSE IF first.t = "anim" THEN "found" ELSE "none"

\* isAnimated: for (const key in item) if (item[key].onFrame !== undefined)
\* return true. Reading onFrame of a null or undefined member is a TypeError;
\* null, undefined and numbers have no members to go through, and the members
\* of an animation object (its functions and numbers) expose no onFrame
RECURSIVE ItemScan(_, _)
ItemScan(item, i) ==
    IF item.t = "holder"
    THEN (IF item.v.t \in {"null", "undef"} THEN "TypeError"
          ELSE IF item.v.t = "anim" THEN "found" ELSE "none")
    ELSE IF item.t # "map" \/ i > Len(KeySeq)
    THEN "none"
    ELSE IF KeySeq[i] \notin DOMAIN item.v
    THEN ItemScan(item, i + 1)
    ELSE IF item.v[KeySeq[i]].t \in {"null", "undef"}
    THEN "TypeError"
    ELSE IF item.v[KeySeq[i]].t = "anim"
    THEN "found"
    ELSE ItemScan(item, i + 1)

\* isAnimated: the loop over the items of an array
RECURSIVE ArrayScan(_, _)
ArrayScan(q, i) ==
    IF i > Len(q) THEN "none"
    ELSE IF ItemScan(q[i], 1) # "none" THEN ItemScan(q[i], 1)
    ELSE ArrayScan(q, i + 1)

\* isAnimated(prop), how it ends: "found" (true), "none" (false), "TypeError"
isAnimatedOutcome(prop) ==
    IF prop.t = "seq" THEN ArrayScan(prop.v, 1)
    ELSE IF prop.t = "anim" THEN "found"
    ELSE "none"

isAnimated(prop) == isAnimatedOutcome(prop) = "found"

\* x === y
StrictEquals(x, y) ==
    IF x.t = "nan" \/ y.t = "nan" THEN FALSE
    ELSE LET nx == IF x.t = "negzero" THEN Num(0) ELSE x
             ny == IF y.t = "negzero" THEN Num(0) ELSE y
         IN nx = ny

\* JSON.stringify(x): the text of a number, "null" for null and for NaN,
\* "0" for -0, undefined for undefined, the object text of an animation
\* object (its data fields; functions are left out)
JSONstringify(h, x) ==
    CASE x.t = "num" -> [k |-> "number", n |-> x.v]
      [] x.t = "negzero" -> [k |-> "number", n |-> 0]
      [] x.t = "nan" -> [k |-> "null", n |-> 0]
      [] x.t = "null" -> [k |-> "null", n |-> 0]
      [] x.t = "anim" -> [k |-> "object", n |-> 0, body |-> h[x.v]]
      [] OTHER -> [k |-> "undefined", n |-> 0]

styleDiff(h, oldStyle, newStyle) ==
    LET removed == {key \in DOMAIN oldStyle : Get(newStyle, key).t = "undef"}
        changed == {key \in DOMAIN newStyle :
                       /\ ~isAnimated(newStyle[key])
                       /\ ~StrictEquals(Get(oldStyle, key), newStyle[key])
                       /\ JSONstringify(h, Get(oldStyle, key)) # JSONstringify(h, newStyle[key])}
    IN [key \in removed \cup changed |-> IF key \in changed THEN newStyle[key] ELSE Null]

getStyleWithoutAnimations(newStyle) ==
    [k \in {x \in DOMAIN newStyle : ~isAnimated(newStyle[x])} |-> newStyle[k]]

----------------------------------------------------------------------------
(* Tree walker *)

\* typeof x === 'object'
TypeofObject(x) == x.t \in {"anim", "null", "map", "seq", "holder"}

\* x is truthy
Truthy(x) ==
    CASE x.t \in {"undef", "null", "nan", "negzero"} -> FALSE
      [] x.t = "num" -> x.v # 0
      [] OTHER -> TRUE

\* x && x[key] for a member name, x && x[index] for a position
MemberAt(x, key) ==
    IF ~Truthy(x) THEN x
    ELSE IF x.t = "map" THEN (IF key \in DOMAIN x.v THEN x.v[key] ELSE Undef)
    ELSE IF x.t = "holder" /\ key = "value" THEN x.v
    ELSE Undef

ElementAt(x, index) ==
    IF ~Truthy(x) THEN x
    ELSE IF x.t = "seq" /\ index <= Len(x.v) THEN x.v[index]
    ELSE Undef

\* a TypeError leaves the handler
Throw(w) == [w EXCEPT !.log.threw = TRUE]

\* a bug: the new animation starts from its own declared current
SeedValueOwn(w, id, lastAnimation, lastValue) == w.heap[id].current

\* the seed prepareAnimation passes to onStart (lastValue is not null: null
\* does not get this far, see PrepareTerminal)
SeedValue(w, id, lastAnimation, lastValue) ==
    LET own == w.heap[id].current
        lastAnimationCurrent ==
            IF lastAnimation.t = "anim" THEN w.heap[lastAnimation.v].current ELSE Undef
        lastValueCurrent ==
            IF lastValue.t = "anim" THEN w.heap[lastValue.v].current ELSE Undef
    IN IF lastValue.t # "undef"
       THEN IF TypeofObject(lastValue)
            THEN IF lastValue.t = "holder" /\ lastValue.v.t # "undef"
                 THEN lastValue.v
                 ELSE IF lastValue.t = "anim"
                 THEN IF lastAnimationCurrent.t # "undef" THEN lastAnimationCurrent
                      ELSE IF lastValueCurrent.t # "undef" THEN lastValueCurrent
                      ELSE own
                 ELSE own
            ELSE lastValue
       ELSE own

\* prepareAnimation on an animation object: reading lastValue.value of null
\* is a TypeError
PrepareTerminal(w, id, lastAnimation, lastValue) ==
    IF lastValue.t = "null"
    THEN Throw(w)
    ELSE onStart(w, id, SeedValue(w, id, lastAnimation, lastValue), lastAnimation)

RECURSIVE prepareAnimation(_, _, _, _)
RECURSIVE PrepareElements(_, _, _, _, _)
RECURSIVE PrepareMembers(_, _, _, _, _)

\* animatedProp.forEach((prop, index) => prepareAnimation(prop, ...)), and
\* Object.keys(animatedProp).forEach(...) of an array
PrepareElements(w, q, lastAnimation, lastValue, i) ==
    IF w.log.threw \/ i > Len(q) THEN w
    ELSE PrepareElements(prepareAnimation(w, q[i], ElementAt(lastAnimation, i),
                                          ElementAt(lastValue, i)),
                         q, lastAnimation, lastValue, i + 1)

\* Object.keys(animatedProp).forEach((key) => prepareAnimation(...))
PrepareMembers(w, f, lastAnimation, lastValue, i) ==
    IF w.log.threw \/ i > Len(KeySeq) THEN w
    ELSE IF KeySeq[i] \notin DOMAIN f
    THEN PrepareMembers(w, f, lastAnimation, lastValue, i + 1)
    ELSE PrepareMembers(prepareAnimation(w, f[KeySeq[i]], MemberAt(lastAnimation, KeySeq[i]),
                                         MemberAt(lastValue, KeySeq[i])),
                        f, lastAnimation, lastValue, i + 1)

\* prepareAnimation(animatedProp, lastAnimation, lastValue). An array is
\* walked by forEach and then, there being no return, once more as an object
\* by Object.keys; null is an object and reading its onFrame is a TypeError
prepareAnimation(w, animatedProp, lastAnimation, lastValue) ==
    IF w.log.threw THEN w
    ELSE IF animatedProp.t = "seq"
    THEN PrepareElements(PrepareElements(w, animatedProp.v, lastAnimation, lastValue, 1),
                         animatedProp.v, lastAnimation, lastValue, 1)
    ELSE IF animatedProp.t = "anim"
    THEN PrepareTerminal(w, animatedProp.v, lastAnimation, lastValue)
    ELSE IF animatedProp.t = "null"
    THEN Throw(w)
    ELSE IF animatedProp.t = "map"
    THEN PrepareMembers(w, animatedProp.v, lastAnimation, lastValue, 1)
    ELSE IF animatedProp.t = "holder"
    THEN prepareAnimation(w, animatedProp.v, MemberAt(lastAnimation, "value"),
                          MemberAt(lastValue, "value"))
    ELSE w

\* what runAnimations leaves for an animation object: result[key] is its
\* current, the returned flag is `finished`
StepResult(w, id, finished) ==
    [w |-> w, finished |-> finished, set |-> TRUE, value |-> w.heap[id].current]

\* a bug: completion is reported but animation.finished is not set
AfterOnFrameUnmarked(f, id, timestamp) ==
    StepResult(IF f.finished
               THEN callback([f.w EXCEPT !.heap[id].timestamp = timestamp,
                                         !.heap[id].finished = FALSE],
                             id, TRUE)
               ELSE [f.w EXCEPT !.heap[id].timestamp = timestamp],
               id, f.finished)

\* runAnimations after the call of onFrame (f is what onFrame left)
AfterOnFrame(f, id, timestamp) ==
    StepResult(IF f.finished
               THEN callback([f.w EXCEPT !.heap[id].timestamp = timestamp,
                                         !.heap[id].finished = TRUE], id, TRUE)
               ELSE [f.w EXCEPT !.heap[id].timestamp = timestamp],
               id, f.finished)

RECURSIVE runAnimations(_, _, _, _)
RECURSIVE RunElements(_, _, _, _, _, _)
RECURSIVE RunMembers(_, _, _, _, _, _)

\* the body of animation.forEach((entry, index) => ...): r is what
\* runAnimations returned for the entry
RunElementsStep(r, q, timestamp, allFinished, results, i) ==
    RunElements(r.w, q, timestamp, allFinished /\ r.finished,
                Append(results, IF r.set THEN r.value ELSE Undef), i + 1)

\* runAnimations on an array: result[key] = [], one entry after the other
RunElements(w, q, timestamp, allFinished, results, i) ==
    IF w.log.threw
    THEN [w |-> w, finished |-> FALSE, set |-> TRUE, value |-> SeqNode(results)]
    ELSE IF i > Len(q)
    THEN [w |-> w, finished |-> allFinished, set |-> TRUE, value |-> SeqNode(results)]
    ELSE RunElementsStep(runAnimations(w, q[i], timestamp, TRUE),
                         q, timestamp, allFinished, results, i)

\* runAnimations on an object whose one member is value
RunHolder(r) ==
    [w |-> r.w, finished |-> r.finished, set |-> TRUE,
     value |-> Holder(IF r.set THEN r.value ELSE Undef)]

\* a bug: the walk of an object stops at the first unfinished member
RunMembersStepShort(r, f, timestamp, allFinished, results, i) ==
    IF r.finished
    THEN RunMembers(r.w, f, timestamp, allFinished,
                    IF r.set THEN Put(results, KeySeq[i], r.value) ELSE results, i + 1)
    ELSE [w |-> r.w, finished |-> FALSE, set |-> TRUE,
          value |-> MapNode(IF r.set THEN Put(results, KeySeq[i], r.value) ELSE results)]

RunMembersStep(r, f, timestamp, allFinished, results, i) ==
    RunMembers(r.w, f, timestamp, allFinished /\ r.finished,
               IF r.set THEN Put(results, KeySeq[i], r.value) ELSE results, i + 1)

\* runAnimations on an object without onFrame: result[key] = {}, one member
\* after the other
RunMembers(w, f, timestamp, allFinished, results, i) ==
    IF w.log.threw
    THEN [w |-> w, finished |-> FALSE, set |-> TRUE, value |-> MapNode(results)]
    ELSE IF i > Len(KeySeq)
    THEN [w |-> w, finished |-> allFinished, set |-> TRUE, value |-> MapNode(results)]
    ELSE IF KeySeq[i] \notin DOMAIN f
    THEN RunMembers(w, f, timestamp, allFinished, results, i + 1)
    ELSE RunMembersStep(runAnimations(w, f[KeySeq[i]], timestamp, TRUE),
                        f, timestamp, allFinished, results, i)

\* runAnimations(animation, timestamp, key, result, animationsActive):
\* the returned record holds the new world, the boolean result, and what was
\* written to result[key] (set = FALSE: nothing was written). null is an
\* object and reading its onFrame is a TypeError
runAnimations(w, animation, timestamp, active) ==
    IF ~active
    THEN [w |-> w, finished |-> TRUE, set |-> FALSE, value |-> Undef]
    ELSE IF animation.t = "seq"
    THEN RunElements(w, animation.v, timestamp, TRUE, <<>>, 1)
    ELSE IF animation.t = "anim"
    THEN IF ~w.heap[animation.v].finished
         THEN AfterOnFrame(onFrame(w, animation.v, timestamp), animation.v, timestamp)
         ELSE StepResult(w, animation.v, TRUE)
    ELSE IF animation.t = "null"
    THEN [w |-> Throw(w), finished |-> FALSE, set |-> FALSE, value |-> Undef]
    ELSE IF animation.t = "map"
    THEN RunMembers(w, animation.v, timestamp, TRUE, EmptyMap, 1)
    ELSE IF animation.t = "holder"
    THEN RunHolder(runAnimations(w, animation.v, timestamp, TRUE))
    ELSE [w |-> w, finished |-> TRUE, set |-> TRUE, value |-> animation]

----------------------------------------------------------------------------
(* Style updater *)

updateProps(w, kind, shape, tree) ==
    [w EXCEPT !.log.commits = Append(@, [kind |-> kind, shape |-> shape, tree |-> tree])]

requestFrame(w) ==
    [w EXCEPT !.queue = @ + 1, !.log.requested = @ + 1]

RECURSIVE FrameLoop(_, _, _, _, _, _)

\* the body of the loop of frame, after runAnimations returned r for KeySeq[i]
FrameLoopStep(r, updates, allFinished, timestamp, active, i) ==
    LET propName == KeySeq[i]
        upd == IF r.set THEN Put(updates, propName, r.value) ELSE updates
    IN IF r.finished
       THEN FrameLoop([r.w EXCEPT !.state.last = Put(@, propName, Get(upd, propName)),
                                 !.state.animations = Del(@, propName),
                                 !.log.folded = Put(@, propName, Get(upd, propName))],
                      upd, allFinished, timestamp, active, i + 1)
       ELSE FrameLoop(r.w, upd, FALSE, timestamp, active, i + 1)

\* the loop of frame over the keys of state.animations
FrameLoop(w, updates, allFinished, timestamp, active, i) ==
    IF i > Len(KeySeq) THEN [w |-> w, updates |-> updates, allFinished |-> allFinished]
    ELSE IF KeySeq[i] \notin DOMAIN w.state.animations
    THEN FrameLoop(w, updates, allFinished, timestamp, active, i + 1)
    ELSE FrameLoopStep(runAnimations(w, w.state.animations[KeySeq[i]], timestamp, active),
                       updates, allFinished, timestamp, active, i)

\* a bug: frame asks for the next frame even when every entry has finished
FrameEndNeverStops(r, jst) ==
    requestFrame(IF jst /\ DOMAIN r.updates = {}
                 THEN r.w
                 ELSE updateProps(r.w, "frame", "map", r.updates))

\* a bug: frame commits only once every entry has finished
FrameEndDeferred(r, jst) ==
    IF ~r.allFinished
    THEN requestFrame(r.w)
    ELSE [updateProps(r.w, "frame", "map", r.updates)
             EXCEPT !.state.isAnimationRunning = FALSE]

\* the end of frame: the commit of updates, then the next request or the stop
FrameEnd(r, jst) ==
    LET committed == IF jst /\ DOMAIN r.updates = {}
                     THEN r.w
                     ELSE updateProps(r.w, "frame", "map", r.updates)
    IN IF ~r.allFinished
       THEN requestFrame(committed)
       ELSE [committed EXCEPT !.state.isAnimationRunning = FALSE]

\* a bug: frame does not look at isAnimationCancelled
frameIgnoresCancel(w, timestamp, active, jst) ==
    FrameEnd(FrameLoop([w EXCEPT !.log.ran = @ + 1], EmptyMap, TRUE, timestamp, active, 1),
             jst)

\* the frame continuation of styleUpdater (jst = FALSE) and of
\* jestStyleUpdater (jst = TRUE)
frame(w, timestamp, active, jst) ==
    IF w.state.isAnimationCancelled
    THEN [w EXCEPT !.state.isAnimationRunning = FALSE, !.log.ran = @ + 1]
    ELSE FrameEnd(FrameLoop([w EXCEPT !.log.ran = @ + 1], EmptyMap, TRUE, timestamp, active, 1),
                  jst)

\* a bug: the loop is started whether or not one is running
StartLoopUnguarded(w) == TRUE

\* if (!state.isAnimationRunning): the admission guard of both updaters
StartLoopGuard(w) == ~w.state.isAnimationRunning

StartLoop(w, frameTimestamp, active, jst) ==
    IF StartLoopGuard(w)
    THEN IF frameTimestamp # 0
         THEN frame([w EXCEPT !.state.isAnimationCancelled = FALSE,
                              !.state.isAnimationRunning = TRUE],
                    frameTimestamp, active, jst)
         ELSE requestFrame([w EXCEPT !.state.isAnimationCancelled = FALSE,
                                     !.state.isAnimationRunning = TRUE])
    ELSE w

\* styleUpdater: the loop over the keys of newValues
RECURSIVE StyleLoop(_, _, _, _, _)
StyleLoop(w, newValues, oldValues, hasAnimations, i) ==
    IF i > Len(KeySeq) THEN [w |-> w, hasAnimations |-> hasAnimations]
    ELSE IF KeySeq[i] \notin DOMAIN newValues
    THEN StyleLoop(w, newValues, oldValues, hasAnimations, i + 1)
    ELSE IF isAnimated(newValues[KeySeq[i]])
    THEN StyleLoop([prepareAnimation(w, newValues[KeySeq[i]],
                                     Get(w.state.animations, KeySeq[i]),
                                     Get(oldValues, KeySeq[i]))
                       EXCEPT !.state.animations = Put(@, KeySeq[i], newValues[KeySeq[i]])],
                   newValues, oldValues, TRUE, i + 1)
    ELSE StyleLoop([w EXCEPT !.state.animations = Del(@, KeySeq[i])],
                   newValues, oldValues, hasAnimations, i + 1)

\* styleUpdater, the branch with animations, after the loop was started:
\* oldValues is state.last, which a frame run by StartLoop has written to
StyleEnd(w, newValues) ==
    updateProps([w EXCEPT !.state.last = Assign(@, newValues)],
                "static", "map", getStyleWithoutAnimations(w.state.last))

\* a bug: the branch without animations forgets to cancel the running loop
StyleBranchNoCancel(r, shape, newValues, frameTimestamp, active) ==
    IF r.hasAnimations
    THEN StyleEnd(StartLoop(r.w, frameTimestamp, active, FALSE), newValues)
    ELSE updateProps([r.w EXCEPT !.state.animations = EmptyMap],
                     "full", shape, newValues)

StyleBranch(r, shape, newValues, frameTimestamp, active) ==
    IF r.hasAnimations
    THEN StyleEnd(StartLoop(r.w, frameTimestamp, active, FALSE), newValues)
    ELSE updateProps([r.w EXCEPT !.state.isAnimationCancelled = TRUE,
                                 !.state.animations = EmptyMap],
                     "full", shape, newValues)

styleUpdater(w, shape, newValues, frameTimestamp, active) ==
    StyleBranch(StyleLoop(w, newValues, w.state.last, FALSE, 1),
                shape, newValues, frameTimestamp, active)

\* jestStyleUpdater: the loop that prepares the animated keys of newValues
RECURSIVE JestLoop(_, _, _, _, _)
JestLoop(w, newValues, oldValues, hasAnimations, i) ==
    IF i > Len(KeySeq) THEN [w |-> w, hasAnimations |-> hasAnimations]
    ELSE IF KeySeq[i] \in DOMAIN newValues /\ isAnimated(newValues[KeySeq[i]])
    THEN JestLoop([prepareAnimation(w, newValues[KeySeq[i]],
                                    Get(w.state.animations, KeySeq[i]),
                                    Get(oldValues, KeySeq[i]))
                      EXCEPT !.state.animations = Put(@, KeySeq[i], newValues[KeySeq[i]])],
                  newValues, oldValues, TRUE, i + 1)
    ELSE JestLoop(w, newValues, oldValues, hasAnimations, i + 1)

\* jestStyleUpdater: the keys of animations that newValues no longer animates
\* are deleted
JestDelete(w, newValues) ==
    [w EXCEPT !.state.animations =
        [key \in {x \in DOMAIN @ : isAnimated(Get(newValues, x))} |-> @[key]]]

\* jestStyleUpdater, from "calculate diff": oldValues is state.last, which a
\* frame run by StartLoop has written to
JestEnd(w, newValues) ==
    LET diff == styleDiff(w.heap, w.state.last, newValues)
    IN IF DOMAIN diff # {}
       THEN updateProps([w EXCEPT !.state.last = Assign(@, newValues)], "diff", "map", diff)
       ELSE [w EXCEPT !.state.last = Assign(@, newValues)]

JestBranch(r, newValues, frameTimestamp, active) ==
    IF r.hasAnimations
    THEN JestEnd(StartLoop(r.w, frameTimestamp, active, TRUE), newValues)
    ELSE JestEnd([r.w EXCEPT !.state.isAnimationCancelled = TRUE,
                             !.state.animations = EmptyMap], newValues)

jestStyleUpdater(w, shape, newValues, frameTimestamp, active) ==
    JestBranch(JestLoop(JestDelete(w, newValues), newValues, w.state.last, FALSE, 1),
               newValues, frameTimestamp, active)

----------------------------------------------------------------------------
(* The producer (updater) and the scheduler *)

EntryChoices == {Num(n) : n \in StaticNums} \cup {[t |-> "new", v |-> n] : n \in StepCounts}

ProducerMaps == UNION {[D -> EntryChoices] : D \in SUBSET Keys}

BadShapes == {"undefined", "number", "sequence"}
ProducerResults ==
    {[shape |-> "map", entries |-> m] : m \in ProducerMaps}
        \cup {[shape |-> sh, entries |-> EmptyMap] : sh \in BadShapes}
WorkletHashes == {1, 2}

\* the animation objects a node holds
RECURSIVE NodeRefs(_)
NodeRefs(x) ==
    CASE x.t = "anim" -> {x.v}
      [] x.t = "map" -> UNION {NodeRefs(x.v[k]) : k \in DOMAIN x.v}
      [] x.t = "seq" -> UNION {NodeRefs(x.v[i]) : i \in 1 .. Len(x.v)}
      [] x.t = "holder" -> NodeRefs(x.v)
      [] OTHER -> {}

Refs(m) == UNION {NodeRefs(m[k]) : k \in DOMAIN m}
Live(st) == Refs(st.last) \cup Refs(st.animations)

\* updater(): every animated entry of the result is a fresh animation object
RECURSIVE Allocate(_, _, _, _)
Allocate(h, used, entries, i) ==
    IF i > Len(KeySeq) THEN [heap |-> h, entries |-> entries]
    ELSE LET k == KeySeq[i] IN
         IF k \in DOMAIN entries /\ entries[k].t = "new"
         THEN LET id == CHOOSE x \in ObjIds \ used : \A y \in ObjIds \ used : x <= y
                  obj == [NoObj EXCEPT !.current = Num(CHOOSE c \in DeclaredCurrents : TRUE),
                                       !.remaining = entries[k].v]
              IN Allocate([h EXCEPT ![id] = obj], used \cup {id},
                          [entries EXCEPT ![k] = Anim(id)], i + 1)
         ELSE Allocate(h, used, entries, i + 1)

\* objects no style refers to any more are dropped
Collect(h, st) == [i \in ObjIds |-> IF i \in Live(st) THEN h[i] ELSE NoObj]

World == [heap |-> heap, state |-> state, queue |-> frameQueue, log |-> EmptyLog]

Install(w, op) ==
    \E r \in {w} :
        /\ heap' = Collect(r.heap, r.state)
        /\ state' = r.state
        /\ frameQueue' = r.queue
        /\ log' = [r.log EXCEPT !.op = op]

----------------------------------------------------------------------------
(* Dependency tracker *)

\* a bug: is(x, y) without the comparison of the signs of zero
isWithoutSign(x, y) ==
    \/ StrictEquals(x, y)
    \/ (~StrictEquals(x, x) /\ ~StrictEquals(y, y))

\* is(x, y) of areDependenciesEqual: 1 / x === 1 / y compares the signs of
\* two zeros
is(x, y) ==
    \/ /\ StrictEquals(x, y)
       /\ (~StrictEquals(x, Num(0)) \/ (x.t = "negzero") = (y.t = "negzero"))
    \/ (~StrictEquals(x, x) /\ ~StrictEquals(y, y))

\* Object.is of the runtime: the same value, a value being a type and what it
\* holds
ObjectIs(x, y) == x = y

\* objectIs: Object.is where the runtime has it, is otherwise
objectIs(hasObjectIs, x, y) == IF hasObjectIs THEN ObjectIs(x, y) ELSE is(x, y)

\* no dependency list (undefined)
Absent == <<[t |-> "absent", v |-> 0]>>

areDependenciesEqual(nextDeps, prevDeps, hasObjectIs) ==
    IF nextDeps = Absent \/ prevDeps = Absent THEN FALSE
    ELSE IF Len(prevDeps) # Len(nextDeps) THEN FALSE
    ELSE \A i \in 1 .. Len(prevDeps) : objectIs(hasObjectIs, nextDeps[i], prevDeps[i])

\* n.toString() of a natural number: its decimal digits
RECURSIVE toString(_)
toString(n) == IF n < 10 THEN <<n>> ELSE toString(n \div 10) \o <<n % 10>>

\* a string value
Str(chars) == [t |-> "str", v |-> chars]

\* buildWorkletsHash(handlers): the texts of the hashes, one after the other,
\* starting from ''
RECURSIVE buildWorkletsHash(_)
buildWorkletsHash(handlers) ==
    IF handlers = <<>> THEN <<>>
    ELSE buildWorkletsHash(SubSeq(handlers, 1, Len(handlers) - 1))
             \o toString(handlers[Len(handlers)].workletHash)

\* dependencies.push(buildWorkletsHash(handlersList))
AppendSentinel(deps, handlersList) ==
    Append(deps, Str(buildWorkletsHash(handlersList)))

\* Object.values(handlers).filter((handler) => handler !== undefined)
RECURSIVE DefinedHandlers(_)
DefinedHandlers(handlers) ==
    IF handlers = <<>> THEN <<>>
    ELSE IF handlers[1] = Undef THEN DefinedHandlers(Tail(handlers))
    ELSE <<handlers[1]>> \o DefinedHandlers(Tail(handlers))

\* buildDependencies(dependencies, handlers); the objects made for the
\* handlers when no list is given are new ones (made by call number `call`)
buildDependencies(deps, handlers, call) ==
    IF deps = Absent
    THEN [i \in 1 .. Len(DefinedHandlers(handlers)) |->
             [t |-> "entry",
              v |-> [workletHash |-> DefinedHandlers(handlers)[i].workletHash,
                     closure |-> DefinedHandlers(handlers)[i].closure,
                     made |-> call]]]
    ELSE AppendSentinel(deps, DefinedHandlers(handlers))

----------------------------------------------------------------------------
(* useAnimatedStyle *)

\* validateAnimatedStyles(styles): TRUE when it throws
validateAnimatedStyles(shape) ==
    IF shape \in {"undefined", "number"} THEN TRUE
    ELSE IF shape = "sequence" THEN TRUE
    ELSE FALSE

\* dependencies = [...inputs, updater.__workletHash]
BuildStyleDependencies(hash) == <<Num(hash)>>

FreshState(initialStyle) ==
    [last |-> initialStyle, animations |-> EmptyMap,
     isAnimationRunning |-> FALSE, isAnimationCancelled |-> FALSE]

\* the side-by-side binding where it is not run
NoTwin == [heap |-> [i \in ObjIds |-> NoObj], state |-> FreshState(EmptyMap), queue |-> 0]

\* a different hook: changed dependencies replace the remote state
RemoteStateReplaced(st, depsEqual) ==
    IF depsEqual THEN st ELSE FreshState(st.last)

\* the remoteState a later call of the hook works with: initRef.current is kept
RemoteStateAfterRender(st, depsEqual) == st

\* the world the updater starts in; the log notes the producer's result and
\* whether a frame loop was running
BindWorld(a, shape) ==
    [World EXCEPT !.heap = a.heap, !.log.shape = shape, !.log.newValues = a.entries,
                  !.log.wasRunning = state.isAnimationRunning]

\* the mapper function: updater() returned a.entries (null or undefined is
\* replaced by {}), and the updater chosen by isJest() works on it
RunUpdater(a, shape, frameTimestamp) ==
    IF jest
    THEN jestStyleUpdater(BindWorld(a, shape), shape, a.entries, frameTimestamp,
                          animationsActive)
    ELSE styleUpdater(BindWorld(a, shape), shape, a.entries, frameTimestamp,
                      animationsActive)

----------------------------------------------------------------------------
(* Actions *)

Init ==
    /\ heap = [i \in ObjIds |-> NoObj]
    /\ state = FreshState(EmptyMap)
    /\ frameQueue = 0
    /\ animationsActive = TRUE
    /\ jest \in BOOLEAN
    /\ binds = 0
    /\ clock = 1
    /\ initRef = FALSE
    /\ mapperId = 0
    /\ dependencies = Absent
    /\ log = EmptyLog
    /\ twin = NoTwin

\* the first call of the hook: the initial run of the updater is validated,
\* the remote state is made, and the effects start the mapper
FirstRender ==
    /\ ~initRef
    /\ \E result \in ProducerResults, hash \in WorkletHashes :
          IF validateAnimatedStyles(result.shape)
          THEN /\ log' = [EmptyLog EXCEPT !.op = "render", !.shape = result.shape,
                                          !.threw = TRUE]
               /\ UNCHANGED <<heap, state, initRef, mapperId, dependencies>>
          ELSE LET a == Allocate(heap, {}, result.entries, 1) IN
               /\ heap' = a.heap
               /\ state' = FreshState(a.entries)
               /\ initRef' = TRUE
               /\ mapperId' = 1
               /\ dependencies' = BuildStyleDependencies(hash)
               /\ log' = [EmptyLog EXCEPT !.op = "render", !.shape = result.shape,
                                          !.registered = TRUE]
    /\ animationsActive' = TRUE
    /\ UNCHANGED <<frameQueue, jest, binds, clock, twin>>

\* a later call of the hook: the effect is run again (stopMapper, startMapper)
\* when the dependencies changed; initRef.current and its remoteState are kept
Render ==
    /\ initRef
    /\ mapperId # 0
    /\ \E hash \in WorkletHashes :
          LET deps == BuildStyleDependencies(hash)
              depsEqual == areDependenciesEqual(deps, dependencies, TRUE)
          IN /\ state' = RemoteStateAfterRender(state, depsEqual)
             /\ mapperId' = IF depsEqual THEN mapperId ELSE 3 - mapperId
             /\ dependencies' = IF depsEqual THEN dependencies ELSE deps
             /\ log' = [EmptyLog EXCEPT !.op = "render", !.registered = ~depsEqual]
    /\ UNCHANGED <<heap, frameQueue, animationsActive, jest, binds, clock, initRef, twin>>

\* the component is torn down: the effects' cleanups run
Unmount ==
    /\ initRef
    /\ mapperId # 0
    /\ mapperId' = 0
    /\ animationsActive' = FALSE
    /\ log' = [EmptyLog EXCEPT !.op = "unmount"]
    /\ UNCHANGED <<heap, state, frameQueue, jest, binds, clock, initRef, dependencies, twin>>

\* the mapper runs the updater
BindUpTo(limit) ==
    /\ mapperId # 0
    /\ binds < limit
    /\ \E result \in ProducerResults, frameTimestamp \in {0, clock} :
          Install(RunUpdater(Allocate(heap, Live(state), result.entries, 1),
                             result.shape, frameTimestamp),
                  "bind")
    /\ binds' = binds + 1
    /\ UNCHANGED <<animationsActive, jest, clock, initRef, mapperId, dependencies, twin>>

\* the scheduler reaches the next display refresh with a frame requested
DisplayRefresh ==
    /\ frameQueue > 0
    /\ clock' = NextTimestamp(clock)

\* the frame scheduler runs a requested callback
Tick ==
    /\ DisplayRefresh
    /\ Install(frame([World EXCEPT !.queue = @ - 1], clock', animationsActive, jest), "tick")
    /\ UNCHANGED <<animationsActive, jest, binds, initRef, mapperId, dependencies, twin>>

Bind == BindUpTo(MaxBinds)
HookBind == BindUpTo(MaxHookBinds)

\* the updater and its frame loop over the life of one binding
Next == FirstRender \/ Bind \/ Tick \/ Unmount
Spec == Init /\ [][Next]_vars

\* the hook re-rendered and re-registered
HookNext == FirstRender \/ Render \/ HookBind \/ Tick \/ Unmount
HookSpec == Init /\ [][HookNext]_vars

\* areDependenciesEqual on its own: the lists a hook is given from one render
\* to the next, on a runtime with or without Object.is
MaxDeps == 3
DepValues == {Num(0), NegZero, Num(1), NaN}
DepLists == {Absent} \cup UNION {[1 .. n -> DepValues] : n \in 0 .. MaxDeps}

DepsInit ==
    /\ heap = [i \in ObjIds |-> NoObj]
    /\ state = FreshState(EmptyMap)
    /\ frameQueue = 0
    /\ animationsActive = TRUE
    /\ jest = FALSE
    /\ binds = 0
    /\ clock = 1
    /\ initRef = FALSE
    /\ mapperId = 0
    /\ dependencies \in DepLists
    /\ log = EmptyLog
    /\ twin = NoTwin

DepsCompare ==
    /\ \E nextDeps \in DepLists, hasObjectIs \in BOOLEAN :
          /\ dependencies' = nextDeps
          /\ log' = [EmptyLog EXCEPT !.op = "compare",
                        !.equal = areDependenciesEqual(nextDeps, dependencies, hasObjectIs)]
    /\ UNCHANGED <<heap, state, frameQueue, animationsActive, jest, binds, clock,
                   initRef, mapperId, twin>>

DepsSpec == DepsInit /\ [][DepsCompare]_vars

\* styleDiff on its own: two property trees over Keys whose values are plain
\* numbers, NaN, -0, null, undefined (the key is present) or an animation
DiffValues == {Num(0), Num(1), NegZero, NaN, Null, Undef, Anim(1)}
DiffMaps == UNION {[D -> DiffValues] : D \in SUBSET Keys}

DiffInit ==
    /\ heap = [i \in ObjIds |-> IF i = 1 THEN [NoObj EXCEPT !.current = Num(0), !.remaining = 1] ELSE NoObj]
    /\ state \in {FreshState(oldStyle) : oldStyle \in DiffMaps}
    /\ frameQueue = 0
    /\ animationsActive = TRUE
    /\ jest = TRUE
    /\ binds = 0
    /\ clock = 1
    /\ initRef = FALSE
    /\ mapperId = 0
    /\ dependencies = Absent
    /\ log = EmptyLog
    /\ twin = NoTwin

\* styleDiff(state.last, newStyle); the log holds newStyle and the diff
DiffCompare ==
    /\ \E newStyle \in DiffMaps :
          log' = [EmptyLog EXCEPT !.op = "diff", !.newValues = newStyle,
                     !.commits = <<[kind |-> "diff", shape |-> "map",
                                    tree |-> styleDiff(heap, state.last, newStyle)]>>]
    /\ UNCHANGED <<heap, state, frameQueue, animationsActive, jest, binds, clock,
                   initRef, mapperId, dependencies, twin>>

DiffSpec == DiffInit /\ [][DiffCompare]_vars

\* runAnimations on its own: one animation object stepped again and again,
\* also after it finished, with animationsActive set and cleared in between
MaxWalks == 4
WalkKey == "opacity"

WalkInit ==
    /\ heap \in {[i \in ObjIds |->
                    IF i = 1 THEN [NoObj EXCEPT !.current = Num(c), !.remaining = n]
                    ELSE NoObj] : c \in DeclaredCurrents \cup StaticNums, n \in StepCounts}
    /\ state = [FreshState([k \in {WalkKey} |-> Anim(1)])
                   EXCEPT !.animations = [k \in {WalkKey} |-> Anim(1)]]
    /\ frameQueue = 0
    /\ animationsActive \in BOOLEAN
    /\ jest = FALSE
    /\ binds = 0
    /\ clock = 1
    /\ initRef = FALSE
    /\ mapperId = 0
    /\ dependencies = Absent
    /\ log = EmptyLog
    /\ twin = NoTwin

\* what a call of runAnimations returned and wrote to result
WalkResult(r) ==
    [r.w EXCEPT !.log.returned = r.finished,
                !.log.result = IF r.set THEN [k \in {WalkKey} |-> r.value] ELSE EmptyMap]

\* runAnimations(animation, timestamp, key, result, animationsActive)
WalkStep ==
    /\ binds < MaxWalks
    /\ clock' = NextTimestamp(clock)
    /\ \E r \in {runAnimations(World, Anim(1), clock', animationsActive)} :
          Install(WalkResult(r), "step")
    /\ binds' = binds + 1
    /\ UNCHANGED <<animationsActive, jest, initRef, mapperId, dependencies, twin>>

\* animationsActive.value is set or cleared
SetActive ==
    /\ animationsActive' = ~animationsActive
    /\ log' = [EmptyLog EXCEPT !.op = "active"]
    /\ UNCHANGED <<heap, state, frameQueue, jest, binds, clock, initRef, mapperId,
                   dependencies, twin>>

WalkNext == WalkStep \/ SetActive
WalkSpec == WalkInit /\ [][WalkNext]_vars

----------------------------------------------------------------------------
(* prepareAnimation and runAnimations on composite nodes: one key of the   *)
(* style holds a node, animations[key] and last[key] hold what the key     *)
(* held before. The new node's animation objects are 1 and 2, object 3 is  *)
(* the animation in flight and object 4 the animation last[key] holds.     *)

MaxTreeSteps == 2

\* what a member named k of a new node may be
MemberChoices(k) == {Anim(IF k = "opacity" THEN 1 ELSE 2), Num(1), Null}

MapNodes ==
    {MapNode(f) : f \in UNION {{g \in [D -> {Anim(1), Anim(2), Num(1), Null}] :
                                   \A k \in D : g[k] \in MemberChoices(k)} :
                               D \in SUBSET Keys}}

FirstElements == MapNodes \cup {Anim(1), Num(1), Null}
SecondElements == {MapNode([k \in {"width"} |-> Num(1)]), Num(1), Null}

SeqNodes ==
    {SeqNode(<<>>)} \cup {SeqNode(<<a>>) : a \in FirstElements}
        \cup {SeqNode(<<a, b>>) : a \in FirstElements, b \in SecondElements}

TreeNodes == {Anim(1)} \cup MapNodes \cup SeqNodes

\* what last[key] may hold
PrevValues ==
    {Undef, Null, Num(1), Holder(Num(2)), Holder(Undef), Anim(4),
     MapNode([k \in {"opacity"} |-> Anim(4)]),
     MapNode([k \in {"opacity"} |-> Null]),
     SeqNode(<<MapNode([k \in {"opacity"} |-> Num(1)])>>),
     SeqNode(<<Null>>)}

\* what animations[key] may hold
PrevAnimations ==
    {Undef, Null, Anim(3),
     MapNode([k \in {"width"} |-> Anim(3)]),
     SeqNode(<<MapNode([k \in {"opacity"} |-> Anim(3)])>>),
     SeqNode(<<Anim(3), Anim(3)>>)}

TreeHeap(current) ==
    [i \in ObjIds |->
        CASE i = 1 -> [NoObj EXCEPT !.current = Num(0), !.remaining = 2]
          [] i = 2 -> [NoObj EXCEPT !.current = Num(0), !.remaining = 1]
          [] i = 3 -> [NoObj EXCEPT !.current = current, !.remaining = 1, !.started = 1]
          [] OTHER -> [NoObj EXCEPT !.current = Num(1), !.remaining = 1, !.started = 1]]

TreeInit ==
    /\ heap \in {TreeHeap(c) : c \in {Num(2), Undef}}
    /\ state \in {[FreshState(IF lv = Undef THEN EmptyMap ELSE [k \in {WalkKey} |-> lv])
                      EXCEPT !.animations =
                                 IF la = Undef THEN EmptyMap ELSE [k \in {WalkKey} |-> la]] :
                  lv \in PrevValues, la \in PrevAnimations}
    /\ frameQueue = 0
    /\ animationsActive = TRUE
    /\ jest = FALSE
    /\ binds = 0
    /\ clock = 1
    /\ initRef = FALSE
    /\ mapperId = 0
    /\ dependencies = Absent
    /\ log = EmptyLog
    /\ twin = NoTwin

\* animations[key] = value, and the frame loop is started; an exception
\* leaves the updater before that
TreeStarted(w, node) ==
    IF w.log.threw THEN w
    ELSE [w EXCEPT !.state.animations = Put(@, WalkKey, node),
                   !.state.isAnimationRunning = TRUE]

\* prepareAnimation(value, animations[key], oldValues[key]) of the updater
TreePrepare ==
    /\ binds = 0
    /\ \E node \in TreeNodes :
          \E r \in {prepareAnimation([World EXCEPT !.log.newValues = [k \in {WalkKey} |-> node]],
                                     node, Get(state.animations, WalkKey),
                                     Get(state.last, WalkKey))} :
              Install(TreeStarted(r, node), "prepare")
    /\ binds' = 1
    /\ UNCHANGED <<animationsActive, jest, clock, initRef, mapperId, dependencies, twin>>

\* runAnimations(animations[propName], timestamp, propName, updates,
\* animationsActive) of a frame
TreeStep ==
    /\ state.isAnimationRunning
    /\ binds <= MaxTreeSteps
    /\ clock' = NextTimestamp(clock)
    /\ \E r \in {runAnimations(World, state.animations[WalkKey], clock', animationsActive)} :
          Install(WalkResult(r), "step")
    /\ binds' = binds + 1
    /\ UNCHANGED <<animationsActive, jest, initRef, mapperId, dependencies, twin>>

TreeNext == TreePrepare \/ TreeStep
TreeSpec == TreeInit /\ [][TreeNext]_vars

----------------------------------------------------------------------------
(* styleUpdater and jestStyleUpdater side by side: the binding of heap,    *)
(* state and frameQueue runs styleUpdater, the binding of twin runs        *)
(* jestStyleUpdater; both get the same producer results, frame timestamps, *)
(* display refreshes and values of animationsActive.                       *)

MaxPairBinds == 2

TwinWorld == [heap |-> twin.heap, state |-> twin.state, queue |-> twin.queue, log |-> EmptyLog]

InstallTwin(w) ==
    \E r \in {w} :
        twin' = [heap |-> Collect(r.heap, r.state), state |-> r.state, queue |-> r.queue]

PairInit ==
    /\ heap = [i \in ObjIds |-> NoObj]
    /\ state = FreshState(EmptyMap)
    /\ frameQueue = 0
    /\ animationsActive = TRUE
    /\ jest = FALSE
    /\ binds = 0
    /\ clock = 1
    /\ initRef = FALSE
    /\ mapperId = 0
    /\ dependencies = Absent
    /\ twin = NoTwin
    /\ log = EmptyLog

\* the first call of the hook, with a valid initial style: both bindings get
\* the remote state made from it
PairRender ==
    /\ ~initRef
    /\ \E m \in ProducerMaps : \E a \in {Allocate(heap, {}, m, 1)} :
          /\ heap' = a.heap
          /\ state' = FreshState(a.entries)
          /\ twin' = [heap |-> a.heap, state |-> FreshState(a.entries), queue |-> 0]
          /\ log' = [EmptyLog EXCEPT !.op = "render", !.registered = TRUE]
    /\ initRef' = TRUE
    /\ mapperId' = 1
    /\ UNCHANGED <<frameQueue, animationsActive, jest, binds, clock, dependencies>>

\* the mapper runs: the same producer result goes to styleUpdater and to
\* jestStyleUpdater
PairBind ==
    /\ mapperId # 0
    /\ binds < MaxPairBinds
    /\ \E m \in ProducerMaps, frameTimestamp \in {0, clock} :
          /\ \E a \in {Allocate(heap, Live(state), m, 1)} :
                Install(styleUpdater(BindWorld(a, "map"), "map", a.entries, frameTimestamp,
                                     animationsActive),
                        "bind")
          /\ \E b \in {Allocate(twin.heap, Live(twin.state), m, 1)} :
                InstallTwin(jestStyleUpdater([TwinWorld EXCEPT !.heap = b.heap], "map",
                                             b.entries, frameTimestamp, animationsActive))
    /\ binds' = binds + 1
    /\ UNCHANGED <<animationsActive, jest, clock, initRef, mapperId, dependencies>>

\* a display refresh: each binding that has a frame requested runs it
PairTick ==
    /\ frameQueue > 0 \/ twin.queue > 0
    /\ clock' = NextTimestamp(clock)
    /\ IF frameQueue > 0
       THEN Install(frame([World EXCEPT !.queue = @ - 1], clock', animationsActive, FALSE),
                    "tick")
       ELSE /\ log' = [EmptyLog EXCEPT !.op = "tick"]
            /\ UNCHANGED <<heap, state, frameQueue>>
    /\ IF twin.queue > 0
       THEN InstallTwin(frame([TwinWorld EXCEPT !.queue = @ - 1], clock', animationsActive,
                              TRUE))
       ELSE UNCHANGED twin
    /\ UNCHANGED <<animationsActive, jest, binds, initRef, mapperId, dependencies>>

\* animationsActive.value is set or cleared, for both bindings
PairSetActive ==
    /\ initRef
    /\ animationsActive' = ~animationsActive
    /\ log' = [EmptyLog EXCEPT !.op = "active"]
    /\ UNCHANGED <<heap, state, frameQueue, jest, binds, clock, initRef, mapperId,
                   dependencies, twin>>

PairNext == PairRender \/ PairBind \/ PairTick \/ PairSetActive
PairSpec == PairInit /\ [][PairNext]_vars

----------------------------------------------------------------------------
(* isAnimated on its own: last[key] holds the value it is asked about      *)

PropMembers == {Anim(1), Num(1), Null, Undef}
PropItems ==
    {MapNode(f) : f \in UNION {[D -> PropMembers] : D \in SUBSET Keys}}
        \cup {Num(1), Null, Undef}
PropValues ==
    {Anim(1), Num(1), Null, Undef, Holder(Num(1))}
        \cup {x \in PropItems : x.t = "map"}
        \cup {SeqNode(<<>>)} \cup {SeqNode(<<a>>) : a \in PropItems}
        \cup {SeqNode(<<a, b>>) : a \in PropItems, b \in PropItems}

PropInit ==
    /\ heap = [i \in ObjIds |->
                  IF i = 1 THEN [NoObj EXCEPT !.current = Num(0), !.remaining = 1] ELSE NoObj]
    /\ state \in {FreshState([k \in {WalkKey} |-> prop]) : prop \in PropValues}
    /\ frameQueue = 0
    /\ animationsActive = TRUE
    /\ jest = FALSE
    /\ binds = 0
    /\ clock = 1
    /\ initRef = FALSE
    /\ mapperId = 0
    /\ dependencies = Absent
    /\ log = EmptyLog
    /\ twin = NoTwin

\* isAnimated(prop); the log holds prop, what was returned and whether the
\* call raised
PropIsAnimated ==
    /\ log.op = "init"
    /\ log' = [EmptyLog EXCEPT !.op = "isAnimated",
                               !.newValues = state.last,
                               !.returned = isAnimated(state.last[WalkKey]),
                               !.threw = (isAnimatedOutcome(state.last[WalkKey]) = "TypeError")]
    /\ UNCHANGED <<heap, state, frameQueue, animationsActive, jest, binds, clock,
                   initRef, mapperId, dependencies, twin>>

PropSpec == PropInit /\ [][PropIsAnimated]_vars

----------------------------------------------------------------------------
(* buildDependencies on its own: the hook of a gesture handler builds its  *)
(* dependency list at every render and compares it with the last one       *)

MaxBuilds == 2

HandlerHashes == {1, 12, 21}
Handlers == {[workletHash |-> h, closure |-> 1] : h \in HandlerHashes}
HandlerLists == [1 .. 2 -> Handlers \cup {Undef}]
ExplicitLists == {<<>>, <<Num(1)>>}

BuildInit ==
    /\ heap = [i \in ObjIds |-> NoObj]
    /\ state = FreshState(EmptyMap)
    /\ frameQueue = 0
    /\ animationsActive = TRUE
    /\ jest = FALSE
    /\ binds = 0
    /\ clock = 1
    /\ initRef = FALSE
    /\ mapperId = 0
    /\ dependencies = Absent
    /\ log = EmptyLog
    /\ twin = NoTwin

\* a render: buildDependencies(dependencies, handlers), then
\* areDependenciesEqual(dependencies, savedDependencies)
BuildCall ==
    /\ binds < MaxBuilds
    /\ \E inputs \in ExplicitLists \cup {Absent}, handlers \in HandlerLists,
          hasObjectIs \in BOOLEAN :
          \E built \in {buildDependencies(inputs, handlers, binds + 1)} :
              /\ dependencies' = built
              /\ log' = [EmptyLog EXCEPT !.op = "build", !.inputs = inputs,
                            !.handlers = handlers,
                            !.equal = areDependenciesEqual(built, dependencies, hasObjectIs)]
    /\ binds' = binds + 1
    /\ UNCHANGED <<heap, state, frameQueue, animationsActive, jest, clock,
                   initRef, mapperId, twin>>

BuildSpec == BuildInit /\ [][BuildCall]_vars

\* the frame loop under a scheduler that runs every requested frame:
\* requestFrame calls its callback at the next display refresh. Tick is the
\* only action that changes clock, so a step that advances clock is a Tick
\* and Tick is enabled exactly when DisplayRefresh is.
MaxLoopBinds == 2
LoopBind == BindUpTo(MaxLoopBinds)
LoopNext == FirstRender \/ LoopBind \/ Tick \/ Unmount
LoopSpec == Init /\ [][LoopNext]_vars /\ WF_clock(DisplayRefresh)

----------------------------------------------------------------------------
(* Claims *)

\* C1: at most one frame continuation is scheduled or executing for the
\* AnimatedState at any time (none is scheduled while isAnimationRunning is
\* false, a handler runs the continuation at most once), and a bind schedules
\* or runs a continuation only when isAnimationRunning was false.
C1_OneContinuation ==
    /\ frameQueue <= 1
    /\ (~state.isAnimationRunning => frameQueue = 0)
    /\ log.ran <= 1
    /\ log.requested <= 1
    /\ (log.op = "bind" /\ (log.requested > 0 \/ log.ran > 0)) => ~log.wasRunning

\* a bind with animated entries arrived while a continuation was scheduled,
\* and started no second one
C1_Witness ==
    /\ log.op = "bind"
    /\ log.starts # <<>>
    /\ log.requested = 0 /\ log.ran = 0
    /\ log.wasRunning
    /\ state.isAnimationRunning
    /\ frameQueue = 1

Range(q) == {q[i] : i \in 1 .. Len(q)}

\* the handler ran frame, frame stepped animations, and every one it stepped
\* reported completion
LastEntryFinished ==
    /\ log.ran = 1
    /\ log.frames # <<>>
    /\ Range(log.frames) = Range(log.callbacks)

\* C2: when no further bind occurs (the mapper runs a bounded number of
\* times) and every animation finishes after finitely many frames, the frame
\* loop stops for good; and right after the frame in which the last entry
\* finishes, animations holds no entry, isAnimationRunning is false and no
\* frame is requested.
C2_LoopStops ==
    /\ [](LastEntryFinished =>
            /\ state.animations = EmptyMap
            /\ ~state.isAnimationRunning
            /\ frameQueue = 0
            /\ log.requested = 0)
    /\ <>[](~state.isAnimationRunning /\ frameQueue = 0)

\* a tick (not the frame a bind runs itself) finished the last entry
C2_Witness ==
    /\ log.op = "tick"
    /\ LastEntryFinished
    /\ Len(log.frames) = 2

\* the step is a run of the mapper that stores an animation for key k while
\* animations holds an animation for k
Interrupts(k) ==
    /\ binds' = binds + 1
    /\ k \in DOMAIN state.animations
    /\ k \in DOMAIN log'.newValues
    /\ isAnimated(log'.newValues[k])

\* C3: a bind that stores a new animation A' for key k while animations[k] is
\* an animation A calls onStart of A' with A's current of that moment as the
\* seed and with A as the previous animation.
C3_InterruptionContinuity ==
    [][\A k \in Keys :
          Interrupts(k) =>
              \E i \in 1 .. Len(log'.starts) :
                  /\ log'.starts[i].id = log'.newValues[k].v
                  /\ log'.starts[i].seed = heap[state.animations[k].v].current
                  /\ log'.starts[i].previous = state.animations[k]]_vars

\* an interrupted animation had moved to 2: neither a start value (0 or the
\* static 1) nor the declared current 0 of the new one
C3_Witness ==
    /\ log.op = "bind"
    /\ \E i \in 1 .. Len(log.starts) :
          /\ log.starts[i].previous.t = "anim"
          /\ log.starts[i].seed = Num(2)
          /\ log.starts[i].previousCurrent = Num(2)

\* the last handler was styleUpdater and the producer's result held no
\* animated entry
StaticBind ==
    /\ log.op = "bind"
    /\ ~jest
    /\ \A k \in DOMAIN log.newValues : ~isAnimated(log.newValues[k])

\* C4: styleUpdater with a result without animated entries sets
\* isAnimationCancelled, empties animations and commits once, the full
\* result; a continuation that runs while isAnimationCancelled is set (no
\* other handler clears it but a bind) steps nothing, requests no frame and
\* leaves the loop stopped.
C4_StaticBindCancels ==
    /\ [](StaticBind =>
            /\ state.isAnimationCancelled
            /\ state.animations = EmptyMap
            /\ log.commits = <<[kind |-> "full", shape |-> log.shape,
                                tree |-> log.newValues]>>
            /\ log.requested = 0 /\ log.ran = 0)
    /\ [][(binds' = binds /\ state.isAnimationCancelled) =>
            /\ state'.isAnimationCancelled
            /\ clock' # clock =>
                  /\ log'.frames = <<>> /\ log'.requested = 0
                  /\ frameQueue' = 0 /\ ~state'.isAnimationRunning]_vars

\* a static result arrived while a loop was running with its continuation
\* scheduled
C4_Witness ==
    /\ StaticBind
    /\ log.shape = "map" /\ log.newValues # EmptyMap
    /\ log.wasRunning /\ state.isAnimationRunning
    /\ frameQueue = 1

\* the step is a later call of the hook
Rerender == initRef /\ log'.op = "render"

SameValue(x, y) ==
    IF x.t = "nan" \/ y.t = "nan" THEN x.t = "nan" /\ y.t = "nan"
    ELSE IF x.t \in {"negzero"} \/ y.t \in {"negzero"} THEN x.t = y.t
    ELSE x.t = y.t /\ x.v = y.v

\* C6: areDependenciesEqual(a, b) is false when a list is absent or the
\* lengths differ, and otherwise true exactly when every position holds the
\* same value in both lists (NaN equal to NaN, +0 distinct from -0).
C6_SameValueLists ==
    [][log'.op = "compare" =>
          (log'.equal <=>
              /\ dependencies' # Absent /\ dependencies # Absent
              /\ Len(dependencies') = Len(dependencies)
              /\ \A i \in 1 .. Len(dependencies) :
                    SameValue(dependencies'[i], dependencies[i]))]_vars

\* two lists of three with a NaN and a -0 compared equal
C6_Witness ==
    /\ log.op = "compare" /\ log.equal
    /\ dependencies = <<Num(1), NaN, NegZero>>

\* deep equality of two values of a tree, read in the claim's favour: NaN
\* equals NaN and the two zeros are equal
StructurallyEqual(x, y) ==
    \/ x = y
    \/ (x \in {Num(0), NegZero} /\ y \in {Num(0), NegZero})

\* C7: styleDiff(old, new) holds exactly a null for each key of old that new
\* lacks, and the new value for each key of new that is not animated and
\* whose value is structurally unequal to old's (a key old lacks has no
\* value there); so styleDiff(T, T) is empty.
C7_DiffExact ==
    log.op = "diff" =>
        LET oldStyle == state.last
            newStyle == log.newValues
            diff == log.commits[1].tree
            removed == DOMAIN oldStyle \ DOMAIN newStyle
            changed == {k \in DOMAIN newStyle :
                           /\ ~isAnimated(newStyle[k])
                           /\ \/ k \notin DOMAIN oldStyle
                              \/ ~StructurallyEqual(oldStyle[k], newStyle[k])}
        IN /\ DOMAIN diff = removed \cup changed
           /\ \A k \in removed \cap DOMAIN diff : diff[k] = Null
           /\ \A k \in changed \cap DOMAIN diff : diff[k] = newStyle[k]
           /\ (oldStyle = newStyle => diff = EmptyMap)

\* the step is a call of runAnimations with the active flag true
ActiveStep == binds' = binds + 1 /\ animationsActive /\ log'.op = "step"

\* C8: with the active flag true, a step on an unfinished animation calls
\* onFrame once, writes the animation's current to the result and sets its
\* timestamp to the step's; the step in which onFrame reports completion sets
\* finished and calls the callback with true; the callback is called once
\* over all steps; a step on a finished animation calls neither onFrame nor
\* the callback, leaves the animation as it is, and still writes its current
\* and returns true.
C8_TerminalStep ==
    /\ []((heap[1].finished <=> heap[1].callbacks = 1) /\ heap[1].callbacks <= 1)
    /\ [][ActiveStep =>
            /\ log'.result = [k \in {WalkKey} |-> heap'[1].current]
            /\ log'.returned = heap'[1].finished
            /\ IF ~heap[1].finished
               THEN /\ log'.frames = <<1>>
                    /\ heap'[1].timestamp = clock'
                    /\ heap'[1].finished <=> heap'[1].remaining = 0
                    /\ log'.callbacks = IF heap'[1].finished THEN <<1>> ELSE <<>>
                    /\ log'.callbackArgs = IF heap'[1].finished THEN <<TRUE>> ELSE <<>>
               ELSE /\ log'.frames = <<>>
                    /\ log'.callbacks = <<>>
                    /\ heap' = heap]_vars

\* a finished animation was stepped again: nothing was called and the cached
\* current was written
C8_Witness ==
    /\ log.op = "step" /\ animationsActive
    /\ heap[1].finished /\ heap[1].started = 0
    /\ log.frames = <<>>
    /\ log.returned
    /\ log.result = [k \in {WalkKey} |-> heap[1].current]
    /\ heap[1].timestamp # clock

\* the step is a continuation run by the scheduler while animationsActive is
\* false
PausedTick == clock' # clock /\ ~animationsActive /\ log'.op = "tick"

\* C9: a continuation that runs while the animations-active flag is false
\* calls no onFrame and no callback, changes no animation's current, finished
\* or timestamp, keeps every entry of animations and does not overwrite last
\* for those keys.
C9_PauseKeepsState ==
    [][PausedTick =>
          /\ log'.frames = <<>> /\ log'.callbacks = <<>>
          /\ \A k \in DOMAIN state.animations :
                /\ k \in DOMAIN state'.animations
                /\ state'.animations[k] = state.animations[k]
                /\ Get(state'.last, k) = Get(state.last, k)
                /\ heap'[state.animations[k].v] = heap[state.animations[k].v]]_vars

\* C10: a producer result that is not a plain property map raises a shape
\* error at the first bind and on every later run of the producer: the
\* handler throws, commits nothing and stores nothing.
C10_ShapeAlwaysRejected ==
    (log.op \in {"render", "bind"} /\ log.shape \in BadShapes) =>
        /\ log.threw
        /\ log.commits = <<>>

\* the step is a run of styleUpdater on a result with an animated entry
AnimatedBind ==
    /\ binds' = binds + 1
    /\ ~jest
    /\ \E k \in DOMAIN log'.newValues : isAnimated(log'.newValues[k])

\* C11: styleUpdater on a result with an animated entry issues a static commit
\* that holds every non-animated key of the new result with its new value,
\* and the non-animated keys of the previous last that the result does not
\* name.
C11_StaticCommitHasNewValues ==
    [][AnimatedBind =>
          \E i \in 1 .. Len(log'.commits) :
              /\ log'.commits[i].kind = "static"
              /\ \A k \in DOMAIN log'.newValues :
                    ~isAnimated(log'.newValues[k]) =>
                        /\ k \in DOMAIN log'.commits[i].tree
                        /\ log'.commits[i].tree[k] = log'.newValues[k]
              /\ \A k \in DOMAIN state.last \ DOMAIN log'.newValues :
                    ~isAnimated(state.last[k]) => k \in DOMAIN log'.commits[i].tree]_vars

\* the current onFrame leaves in animation object a
ValueOfStep(a) ==
    IF a.current.t = "num" THEN Num((a.current.v + 1) % CurrentMod) ELSE a.current

\* the step ran a continuation of styleUpdater that was not cancelled, with
\* the active flag true (frame run by a bind has just cleared the cancel flag)
LiveFrame ==
    /\ ~jest /\ animationsActive
    /\ log'.ran = 1
    /\ clock' # clock => ~state.isAnimationCancelled

\* C12: a continuation of the default strategy that runs while not cancelled
\* and active issues exactly one frame commit itself, finished or not; the
\* tree a tick commits has exactly the keys animations held when the tick
\* began, each with the value its step produced.
C12_OneCommitPerTick ==
    [][LiveFrame =>
          /\ Cardinality({i \in 1 .. Len(log'.commits) :
                             log'.commits[i].kind = "frame"}) = 1
          /\ clock' # clock =>
                log'.commits =
                    <<[kind |-> "frame", shape |-> "map",
                       tree |-> [k \in DOMAIN state.animations |->
                                    ValueOfStep(heap[state.animations[k].v])]]>>]_vars

\* a tick stepped two entries, one finished and one did not, and committed
\* both
C12_Witness ==
    /\ log.op = "tick" /\ ~jest /\ animationsActive
    /\ Len(log.frames) = 2 /\ Len(log.callbacks) = 1
    /\ log.requested = 1
    /\ Len(log.commits) = 1
    /\ DOMAIN log.commits[1].tree = Keys

\* C13: after every bind, in the branch with animated entries and in the one
\* without, state.last is the previous last overwritten key by key with the
\* new result.
C13_LastIsMerged ==
    [][binds' = binds + 1 => state'.last = Assign(state.last, log'.newValues)]_vars

\* C14: after every bind, animations holds no key whose value in the new
\* result is not animated, keys the result does not name included.
C14_NoStaleAnimations ==
    log.op = "bind" =>
        \A k \in DOMAIN state.animations : isAnimated(Get(log.newValues, k))

\* the calls of onStart on animation object id in the last operation
StartsOf(id) == {i \in 1 .. Len(log.starts) : log.starts[i].id = id}

\* C15: one call of prepareAnimation on a node calls onStart exactly once for
\* every animation object the node contains (the node itself, a member of an
\* object, a member of an element of an array), and no animation object gets
\* a frame before its onStart.
C15_OnStartOnce ==
    /\ (log.op = "prepare" /\ ~log.threw) =>
           \A id \in NodeRefs(log.newValues[WalkKey]) : Cardinality(StartsOf(id)) = 1
    /\ log.op = "step" =>
           \A i \in 1 .. Len(log.frames) : heap[log.frames[i]].started >= 1

\* the seed claimed for an animation object, from what last[key] and
\* animations[key] held
ClaimedSeed(h, own, previousAnimationNode, previousValue) ==
    IF previousValue.t = "holder" /\ previousValue.v.t # "undef"
    THEN previousValue.v
    ELSE IF previousValue.t = "anim"
    THEN IF previousAnimationNode.t = "anim" /\ h[previousAnimationNode.v].current.t # "undef"
         THEN h[previousAnimationNode.v].current
         ELSE IF h[previousValue.v].current.t # "undef"
         THEN h[previousValue.v].current
         ELSE own
    ELSE IF previousValue.t \in {"num", "nan", "negzero"}
    THEN previousValue
    ELSE own

\* prepareAnimation is called on an animation object
TerminalPrepare ==
    /\ binds = 0 /\ binds' = 1
    /\ log'.newValues[WalkKey] = Anim(1)

\* C16: for an animation object and every pair of previous value and previous
\* animation node, onStart gets as its seed: the previous value's .value if it
\* is a holder; else, the previous value being an animation object, the
\* current of the previous animation node when there is one, otherwise the
\* previous value's current; else the previous value if it is a plain value;
\* else the animation's own declared current.
C16_SeedPriority ==
    [][TerminalPrepare =>
          /\ Len(log'.starts) = 1
          /\ log'.starts[1].id = 1
          /\ log'.starts[1].seed =
                 ClaimedSeed(heap, heap[1].current, Get(state.animations, WalkKey),
                             Get(state.last, WalkKey))]_vars

\* C17: prepareAnimation and runAnimations never raise, whatever the previous
\* animation node and the previous value are (absent, null, a plain value, a
\* node of another shape).
C17_NeverRaises ==
    log.op \in {"prepare", "step"} => ~log.threw

\* the step is a continuation that finds isAnimationCancelled set
CancelledTick == clock' # clock /\ state.isAnimationCancelled

\* the step is a bind that sets isAnimationCancelled
CancellingBind ==
    binds' = binds + 1 /\ ~state.isAnimationCancelled /\ state'.isAnimationCancelled

\* C18: a continuation that finds isAnimationCancelled set clears
\* isAnimationRunning and does nothing else: no onFrame, no callback, no
\* commit, no frame request, last and animations and the animation objects as
\* they were. The bind that sets isAnimationCancelled runs no continuation and
\* leaves isAnimationRunning and the scheduled continuation as they are.
C18_CancelledContinuation ==
    [][/\ CancelledTick =>
             /\ state' = [state EXCEPT !.isAnimationRunning = FALSE]
             /\ heap' = heap
             /\ frameQueue' = frameQueue - 1
             /\ log'.ran = 1
             /\ log'.frames = <<>> /\ log'.callbacks = <<>>
             /\ log'.commits = <<>> /\ log'.requested = 0
       /\ CancellingBind =>
             /\ state'.isAnimationRunning = state.isAnimationRunning
             /\ frameQueue' = frameQueue
             /\ log'.ran = 0]_vars

\* a continuation found isAnimationCancelled set while animations held an
\* entry, and stopped the loop
C18_Witness ==
    /\ log.op = "tick" /\ log.ran = 1
    /\ state.isAnimationCancelled /\ ~state.isAnimationRunning
    /\ state.animations # EmptyMap
    /\ log.frames = <<>> /\ log.commits = <<>>

\* C19: after every bind and every continuation, a key whose entry finished in
\* that handler's frame (log.folded holds what frame then wrote to last for
\* it) is no longer in animations, and last holds for it the value the step
\* produced, not the animation object and not an earlier value; the frame
\* that runs inside the bind included.
C19_FinishedFolded ==
    log.op \in {"bind", "tick"} =>
        \A k \in DOMAIN log.folded :
            /\ k \notin DOMAIN state.animations
            /\ k \in DOMAIN state.last
            /\ state.last[k] = log.folded[k]

\* the same value, animation objects being compared as such (the two
\* bindings hold their own)
SameEntry(x, y) == x = y \/ (x.t = "anim" /\ y.t = "anim")

\* the same AnimatedState: the same last, the same keys in animations, the
\* same flags
SameAnimatedState(a, b) ==
    /\ DOMAIN a.last = DOMAIN b.last
    /\ \A k \in DOMAIN a.last : SameEntry(a.last[k], b.last[k])
    /\ DOMAIN a.animations = DOMAIN b.animations
    /\ a.isAnimationRunning = b.isAnimationRunning
    /\ a.isAnimationCancelled = b.isAnimationCancelled

\* C20: run side by side from the same AnimatedState over the same producer
\* results, display refreshes and values of animationsActive, styleUpdater and
\* jestStyleUpdater keep the same AnimatedState after every step.
C20_StrategyEquivalence ==
    initRef => SameAnimatedState(state, twin.state)

\* the value isAnimated was asked about
AskedProp == log.newValues[WalkKey]

\* the first member of an item, in the order of its keys
FirstMember(item) ==
    IF item.t # "map" \/ DOMAIN item.v = {} THEN Undef
    ELSE item.v[KeySeq[CHOOSE j \in 1 .. Len(KeySeq) :
                           /\ KeySeq[j] \in DOMAIN item.v
                           /\ \A n \in 1 .. (j - 1) : KeySeq[n] \notin DOMAIN item.v]]

MemberPositions(q) ==
    {p \in (1 .. Len(q)) \X (1 .. Len(KeySeq)) :
        q[p[1]].t = "map" /\ KeySeq[p[2]] \in DOMAIN q[p[1]].v}
MemberOf(q, p) == q[p[1]].v[KeySeq[p[2]]]
ScannedBefore(p, r) == p[1] < r[1] \/ (p[1] = r[1] /\ p[2] < r[2])

\* a null or undefined member that no member exposing onFrame precedes
NullishMemberFirst(q) ==
    \E p \in MemberPositions(q) :
        /\ MemberOf(q, p).t \in {"null", "undef"}
        /\ \A r \in MemberPositions(q) : ScannedBefore(r, p) => MemberOf(q, r).t # "anim"

HashesOf(handlers) ==
    [i \in 1 .. Len(DefinedHandlers(handlers)) |-> DefinedHandlers(handlers)[i].workletHash]

\* two renders in a row with the same explicit list and as many defined
\* handlers, whose hashes differ in some position
HashChanged ==
    /\ log.op = "build" /\ log'.op = "build"
    /\ log.inputs # Absent /\ log'.inputs = log.inputs
    /\ Len(HashesOf(log.handlers)) = Len(HashesOf(log'.handlers))
    /\ HashesOf(log.handlers) # HashesOf(log'.handlers)

\* C22: with an explicit list buildDependencies appends exactly one sentinel,
\* made from the content hashes of the defined handlers, and for the same
\* explicit values two handler sets whose ordered hashes differ in a position
\* give lists that areDependenciesEqual reports as unequal; with no list the
\* result is one (workletHash, closure) entry per defined handler, in order.
C22_SentinelSeparates ==
    [][/\ (log'.op = "build" /\ log'.inputs # Absent) =>
              /\ Len(dependencies') = Len(log'.inputs) + 1
              /\ SubSeq(dependencies', 1, Len(log'.inputs)) = log'.inputs
       /\ (log'.op = "build" /\ log'.inputs = Absent) =>
              /\ Len(dependencies') = Len(HashesOf(log'.handlers))
              /\ \A i \in 1 .. Len(dependencies') :
                    /\ dependencies'[i].v.workletHash = HashesOf(log'.handlers)[i]
                    /\ dependencies'[i].v.closure = DefinedHandlers(log'.handlers)[i].closure
       /\ HashChanged => ~log'.equal]_vars

\* the last handler was a run of styleUpdater that started the frame loop
LoopStartingBind ==
    /\ log.op = "bind" /\ ~jest
    /\ ~log.wasRunning
    /\ \E k \in DOMAIN log.newValues : isAnimated(log.newValues[k])

\* C23: in a run of styleUpdater that starts the frame loop the commit of the
\* static subset comes before the first continuation runs and commits, with a
\* frame timestamp at hand (the continuation is called directly) and without
\* (it is requested); no key's previous static value is committed after a
\* continuation has committed the key's animated value.
C23_StaticCommitFirst ==
    LoopStartingBind =>
        /\ \E j \in 1 .. Len(log.commits) : log.commits[j].kind = "static"
        /\ \A i, j \in 1 .. Len(log.commits) :
              (log.commits[i].kind = "frame" /\ log.commits[j].kind = "static") =>
                  /\ j < i
                  /\ DOMAIN log.commits[i].tree \cap DOMAIN log.commits[j].tree = {}

\* C24: in every interleaving of binds and continuations, the entries a bind
\* stored in animations keep being stepped until they finish: while
\* animations holds an entry, a continuation is scheduled (so that, the
\* scheduler being fair, every entry whose onFrame comes to report completion
\* finishes and has its callback called).
C24_StaysScheduled ==
    (log.op \in {"bind", "tick"} /\ state.animations # EmptyMap) => frameQueue > 0

\* the result tree runAnimations is to write for a node, the animation
\* objects being as h has them after the call
RECURSIVE ResultOf(_, _)
ResultOf(h, node) ==
    CASE node.t = "anim" -> h[node.v].current
      [] node.t = "seq" -> SeqNode([i \in 1 .. Len(node.v) |-> ResultOf(h, node.v[i])])
      [] node.t = "map" -> MapNode([k \in DOMAIN node.v |-> ResultOf(h, node.v[k])])
      [] OTHER -> node

\* the conjunction of the children's results: an animation object reports
\* its finished, a plain value true
RECURSIVE AllFinished(_, _)
AllFinished(h, node) ==
    CASE node.t = "anim" -> h[node.v].finished
      [] node.t = "seq" -> \A i \in 1 .. Len(node.v) : AllFinished(h, node.v[i])
      [] node.t = "map" -> \A k \in DOMAIN node.v : AllFinished(h, node.v[k])
      [] OTHER -> TRUE

\* the step is a call of runAnimations on the node of animations[key]
TreeWalk == log'.op = "step" /\ animationsActive

\* C25: runAnimations on an array or an object, animationsActive being true,
\* steps every unfinished animation object of the node exactly once, whether
\* or not a sibling is unfinished, writes a result of the same shape (same
\* indices, same keys) that holds each animation's current and each plain
\* value as it is, and returns the conjunction of the children's results.
C25_CompositeWalk ==
    [][TreeWalk =>
          /\ \A id \in NodeRefs(state.animations[WalkKey]) :
                Cardinality({i \in 1 .. Len(log'.frames) : log'.frames[i] = id})
                    = IF heap[id].finished THEN 0 ELSE 1
          /\ \A i \in 1 .. Len(log'.frames) :
                log'.frames[i] \in NodeRefs(state.animations[WalkKey])
          /\ log'.result = [k \in {WalkKey} |-> ResultOf(heap', state.animations[WalkKey])]
          /\ log'.returned = AllFinished(heap', state.animations[WalkKey])]_vars

\* an object inside an array was walked: its first member's animation is
\* unfinished, its second member's animation was stepped all the same and
\* finished, a plain element was copied
C25_Witness ==
    /\ log.op = "step"
    /\ state.animations[WalkKey].t = "seq"
    /\ Len(state.animations[WalkKey].v) = 2
    /\ state.animations[WalkKey].v[2] = Num(1)
    /\ log.frames = <<1, 2>>
    /\ ~heap[1].finished /\ heap[2].finished
    /\ ~log.returned
    /\ log.result[WalkKey].v[2] = Num(1)

====
